---- MODULE Spec2Model ----
(***************************************************************************)
(* Website audit tool: the crawl-and-audit engine of                       *)
(* src/web-app/website_auditor.py (class WebsiteAuditor), with the two     *)
(* page fetchers the repository contains: the Selenium fetcher of the      *)
(* web app and the requests fetcher of the earlier copies.                 *)
(*                                                                         *)
(* A URL string is a record of the parts urlparse() splits it into.  An    *)
(* href attribute is a record [kind, netloc, path, fragment]: "abs" an     *)
(* absolute http URL, "rel" a path-absolute reference ("/"), "frag" a      *)
(* fragment-only reference ("#top"), "mailto"/"javascript"/"tel" a         *)
(* pseudo-scheme reference, "invalid" a reference urljoin() rejects.       *)
(***************************************************************************)
EXTENDS Integers, Sequences, FiniteSets, TLC

\* ---------------------------------------------------------------- bounds
\* largest page budget (max_pages) an audit is started with
MaxBudget == 2
\* anchors the audited site serves in total, over all fetched pages
MaxSiteLinks == 2
\* replies of the site that are not a plain 200 page (failures, error
\* statuses, redirects, a browser that does not start)
MaxFaults == 1

\* ------------------------------------------------------------------ URLs
SiteHost == "example.com"
WwwHost == "www.example.com"
OtherHost == "other.org"

MakeURL(netloc, path) ==
    [scheme |-> "http", netloc |-> netloc, path |-> path, fragment |-> ""]

NoURL == [scheme |-> "", netloc |-> "", path |-> "", fragment |-> ""]

\* the seed URLs an audit is started with
SeedInputs == {MakeURL(h, p) : h \in {SiteHost, WwwHost}, p \in {"", "/"}}

\* str.rstrip('/') on a URL whose path is "", "/" or "/name"
RStripSlash(u) == IF u.path = "/" THEN [u EXCEPT !.path = ""] ELSE u

MakeHref(kind, netloc, path, fragment) ==
    [kind |-> kind, netloc |-> netloc, path |-> path, fragment |-> fragment]

\* the href attributes the pages of the audited site carry
Hrefs ==
    { MakeHref("abs", SiteHost, "/x", ""),
      MakeHref("abs", WwwHost, "/x", ""),
      MakeHref("rel", "", "/", ""),
      MakeHref("frag", "", "", "top") }

PseudoSchemes == {"javascript", "mailto", "tel"}

\* <a href="http://[">: an href urljoin rejects with ValueError("Invalid IPv6
\* URL")
InvalidHref == MakeHref("invalid", "", "", "")

\* <a href="sms:+15550100">: a scheme that is none of javascript:, mailto:,
\* tel:; urljoin returns it as it is and urlparse finds no netloc in it
OtherSchemeHref == MakeHref("sms", "", "+15550100", "")

\* <a href="/x#team">: another page of the site, at a fragment
FragmentPageHref == MakeHref("rel", "", "/x", "team")

\* urllib.parse.urljoin(url, href) raises
UrljoinRaises(href) == href.kind = "invalid"

\* urllib.parse.urljoin(url, href), then urlparse of the result
urljoin(url, href) ==
    CASE href.kind = "abs" ->
            [scheme |-> "http", netloc |-> href.netloc, path |-> href.path,
             fragment |-> href.fragment]
      [] href.kind = "rel" ->
            [scheme |-> url.scheme, netloc |-> url.netloc, path |-> href.path,
             fragment |-> href.fragment]
      [] href.kind = "frag" -> [url EXCEPT !.fragment = href.fragment]
      [] OTHER ->
            [scheme |-> href.kind, netloc |-> "", path |-> href.path,
             fragment |-> ""]

\* the test that skips anchors, javascript:, mailto: and tel: links
SkipLink(href, parsed) ==
    parsed.fragment # "" \/ href.kind \in PseudoSchemes

\* helpers on sequences
RECURSIVE SeqsUpTo(_, _)
SeqsUpTo(S, n) ==
    IF n = 0 THEN {<<>>}
    ELSE LET shorter == SeqsUpTo(S, n - 1)
         IN shorter \cup {Append(s, x) : s \in {t \in shorter : Len(t) = n - 1}, x \in S}

Range(s) == {s[i] : i \in 1..Len(s)}

Count(s, x) == Cardinality({i \in 1..Len(s) : s[i] = x})

Max(a, b) == IF a >= b THEN a ELSE b
Min(a, b) == IF a <= b THEN a ELSE b

\* ------------------------------------------------------------ page content
\* What BeautifulSoup finds in a page, as far as the detectors look:
\* title_len 0 is a missing or empty <title>.
BarePage ==
    [title_len |-> 0, meta_desc |-> FALSE, h1 |-> 0, canonical |-> FALSE,
     imgs_no_alt |-> 3, viewport |-> FALSE, css |-> 4, js |-> 2]

CleanPage ==
    [title_len |-> 40, meta_desc |-> TRUE, h1 |-> 1, canonical |-> TRUE,
     imgs_no_alt |-> 0, viewport |-> TRUE, css |-> 2, js |-> 1]

RequiredHeaders ==
    {"X-Content-Type-Options", "X-Frame-Options", "X-XSS-Protection",
     "Strict-Transport-Security"}

\* the order in which required_headers.items() is iterated
RequiredHeaderSeq ==
    <<"X-Content-Type-Options", "X-Frame-Options", "X-XSS-Protection",
      "Strict-Transport-Security">>

TitleLimit == 60
BlockingCssLimit == 2
BlockingJsLimit == 1
MinHtmlBytes == 1000
ErrorStatus == 400

Categories == {"SEO", "Performance", "Accessibility", "Security", "Mobile"}

VARIABLES
    base_url,        \* self.base_url
    domain,          \* self.domain
    max_pages,       \* self.max_pages
    fetcher,         \* which fetch_page is in use: "selenium" or "requests"
    driver,          \* self.driver is set (the browser is up)
    visited_urls,    \* self.visited_urls
    all_links,       \* self.all_links
    external_links,  \* self.external_links
    broken_links,    \* self.broken_links
    redirects,       \* self.redirects
    pages_data,      \* self.pages_data
    page_speeds,     \* self.page_speeds
    issues,          \* self.issues: the three lists
    stack,           \* the call stack of crawl_page, innermost call last
    fetch_log,       \* the calls of fetch_page so far: URL, reply sent, response got
    scores,          \* what calculate_score returned, <<>> before it ran
    phase,           \* where run_audit is
    site,            \* the audited site: its markup and its faulty reply
    links_left,      \* anchors the site may still serve
    faults_left,     \* faulty replies the site may still give
    ai_enabled,      \* self.ai_enabled
    ai_service,      \* the suggestion service as run_audit found it, "" before
    recommendations, \* the recommendations of run_audit
    report,          \* what run_audit returned, <<>> before it did
    cancel,          \* <<n>> once the consumer of the event stream went away
                     \* with n calls of fetch_page made or under way
    progress_queue,  \* self.progress_queue: the events put and not yet taken
    emitted,         \* every event put on the queue so far, in the order of the puts
    stream,          \* the events generate() has yielded to the client
    handler,         \* where generate() is: "streaming", "closed", "abandoned"
    progress_queues  \* the ids in the progress_queues map of the web app

vars ==
    <<base_url, domain, max_pages, fetcher, driver, visited_urls, all_links,
      external_links, broken_links, redirects, pages_data, page_speeds, issues,
      stack, fetch_log, scores, phase, site, links_left, faults_left,
      ai_enabled, ai_service, recommendations, report, cancel,
      progress_queue, emitted, stream, handler, progress_queues>>

\* what only the end of run_audit and the consumer of its events change
report_vars == <<ai_enabled, ai_service, recommendations, report, cancel>>

\* the queue of progress events, and what generate() of the web app changes
queue_vars == <<progress_queue, emitted>>

stream_vars == <<stream, handler, progress_queues>>

\* url.replace(self.base_url, '') or '/': <<"", path>> when the URL starts
\* with base_url, else the URL kept whole, <<netloc, path>>
PageName(url) ==
    IF url.scheme = base_url.scheme /\ url.netloc = base_url.netloc
    THEN <<"", IF url.path = "" THEN "/" ELSE url.path>>
    ELSE <<url.netloc, url.path>>

Issue(type, category, title, url) ==
    [type |-> type, category |-> category, title |-> title, url |-> url,
     page |-> IF url = NoURL THEN <<"", "">> ELSE PageName(url)]

check_seo_elements(soup, url) ==
    (IF soup.title_len = 0
        THEN <<Issue("warning", "SEO", "Missing page title", url)>>
        ELSE IF soup.title_len > TitleLimit
             THEN <<Issue("info", "SEO", "Page title too long", url)>>
             ELSE <<>>)
    \o (IF ~soup.meta_desc
           THEN <<Issue("warning", "SEO", "Missing meta description", url)>>
           ELSE <<>>)
    \o (IF soup.h1 = 0
           THEN <<Issue("warning", "SEO", "No H1 tag found", url)>>
           ELSE IF soup.h1 > 1
                THEN <<Issue("info", "SEO", "Multiple H1 tags", url)>>
                ELSE <<>>)
    \o (IF ~soup.canonical
           THEN <<Issue("info", "SEO", "Missing canonical tag", url)>>
           ELSE <<>>)

\* one issue for each image without alt text, each under its own title
check_imagesPerImage(soup, url) ==
    [i \in 1..soup.imgs_no_alt |->
        Issue("warning", "Accessibility",
              "Image " \o ToString(i) \o " missing alt attribute", url)]

check_images(soup, url) ==
    IF soup.imgs_no_alt > 0
    THEN <<Issue("warning", "Accessibility", "Images missing alt attributes", url)>>
    ELSE <<>>

RECURSIVE MissingHeaderIssues(_, _)
MissingHeaderIssues(names, headers) ==
    IF names = <<>> THEN <<>>
    ELSE (IF Head(names) \notin headers
          THEN <<Issue("critical", "Security",
                       "Missing security header: " \o Head(names), NoURL)>>
          ELSE <<>>)
         \o MissingHeaderIssues(Tail(names), headers)

check_security_headers(response) ==
    MissingHeaderIssues(RequiredHeaderSeq, response.headers)

check_mobile_viewport(soup, url) ==
    IF ~soup.viewport
    THEN <<Issue("warning", "Mobile", "Missing viewport meta tag", url)>>
    ELSE <<>>

check_render_blocking_resources(soup, url) ==
    (IF soup.css > BlockingCssLimit
        THEN <<Issue("critical", "Performance",
                     "Multiple render-blocking CSS files", url)>>
        ELSE <<>>)
    \o (IF soup.js > BlockingJsLimit
           THEN <<Issue("critical", "Performance", "Render-blocking JavaScript", url)>>
           ELSE <<>>)

\* ------------------------------------------------------------ page fetchers
\* What the site answers to one request.  A site is [page, fault]: the
\* markup its pages share, and the way it misbehaves when it does: the head
\* [kind, status_code, size, chain] of its faulty replies, where kind "fail"
\* is a timeout, a connection error or any other exception of the transport.
SmallBody == MinHtmlBytes - 1

CrawlPages == {BarePage, CleanPage}

RedirectChain == <<301, 302>>

ReplyHead(kind, status, size, chain) ==
    [kind |-> kind, status_code |-> status, size |-> size, chain |-> chain]

PlainHead == ReplyHead("ok", 200, MinHtmlBytes, <<>>)

FaultHeads ==
    {ReplyHead("fail", 0, 0, <<>>)}
    \cup {ReplyHead("ok", st, sz, <<>>) : st \in {404, 415}, sz \in {SmallBody, MinHtmlBytes}}
    \cup {ReplyHead("ok", 200, MinHtmlBytes, RedirectChain)}

\* a page of 200 with an anchor whose href is InvalidHref
InvalidHrefHead == ReplyHead("invalid_href", 200, MinHtmlBytes, <<>>)

\* pages of 200 with an anchor whose href is OtherSchemeHref, FragmentPageHref
OtherSchemeHrefHead == ReplyHead("other_scheme_href", 200, MinHtmlBytes, <<>>)

FragmentPageHrefHead == ReplyHead("fragment_page_href", 200, MinHtmlBytes, <<>>)

OddHrefHeads == {InvalidHrefHead, OtherSchemeHrefHead, FragmentPageHrefHead}

\* the href such a page carries
OddHref(head) ==
    CASE head = InvalidHrefHead -> InvalidHref
      [] head = OtherSchemeHrefHead -> OtherSchemeHref
      [] head = FragmentPageHrefHead -> FragmentPageHref

Sites == [page : CrawlPages, fault : FaultHeads \cup OddHrefHeads]

HeadersOf(page) == IF page = CleanPage THEN RequiredHeaders ELSE {}

\* where a redirected request ends
MovedTo(url) == [url EXCEPT !.path = "/z"]

Reply(head, url, page, links) ==
    [kind |-> head.kind, status_code |-> head.status_code, size |-> head.size,
     chain |-> head.chain, final |-> IF head.chain = <<>> THEN url ELSE MovedTo(url),
     headers |-> HeadersOf(page), page |-> page, links |-> links]

\* the replies the site can give to a request for url: a plain page, or its
\* faulty reply; a failed request and a short error body carry no anchors
Replies(st, url, nlinks, nfaults) ==
    {Reply(PlainHead, url, st.page, l) : l \in SeqsUpTo(Hrefs, nlinks)}
    \cup (IF nfaults = 0 THEN {}
          ELSE IF st.fault.kind = "fail" \/ st.fault.size < MinHtmlBytes
               THEN {Reply(st.fault, url, st.page, <<>>)}
               ELSE IF st.fault \in OddHrefHeads
                    THEN IF nlinks = 0 THEN {}
                         ELSE UNION {{Reply(st.fault, url, st.page,
                                            <<OddHref(st.fault)>> \o l),
                                      Reply(st.fault, url, st.page,
                                            l \o <<OddHref(st.fault)>>)} :
                                        l \in SeqsUpTo(Hrefs, nlinks - 1)}
                    ELSE {Reply(st.fault, url, st.page, l) :
                            l \in SeqsUpTo(Hrefs, nlinks)})

\* init_browser failed: fetch_page returns None and sends nothing
NoBrowser ==
    [kind |-> "none", status_code |-> 0, size |-> 0, chain |-> <<>>, final |-> NoURL]

IsPlain(reply) ==
    reply.kind = "ok" /\ reply.status_code = 200 /\ reply.chain = <<>>

\* a URL that is no http URL reaches no site: requests.get raises
\* InvalidSchema, which fetch_page catches
NoConnection(url, page) == Reply(ReplyHead("fail", 0, 0, <<>>), url, page, <<>>)

\* what requests.get(url) can come back with
RequestsReplies(st, url, nlinks, nfaults) ==
    IF url.scheme = "http" THEN Replies(st, url, nlinks, nfaults)
    ELSE {NoConnection(url, st.page)}

\* what driver.get(url) can leave in the browser; for a URL that is no http
\* URL the driver raises or the browser shows a page of the site all the same
SeleniumReplies(st, url, nlinks, nfaults) ==
    IF url.scheme = "http" THEN Replies(st, url, nlinks, nfaults)
    ELSE Replies(st, url, nlinks, nfaults) \cup {NoConnection(url, st.page)}

\* the reply uses up one of the faults of the site
IsFault(url, reply) ==
    ~IsPlain(reply) /\ ~(url.scheme # "http" /\ reply.kind = "fail")

\* A response object: None is <<>>, a response r is <<r>>.
Response(status, size, final, history, headers, page, links) ==
    <<[status_code |-> status, content_len |-> size, url |-> final,
       history |-> history, headers |-> headers, soup |-> page, links |-> links]>>

\* fetch_page of the requests copies: requests.get(..., allow_redirects=True)
fetch_page_requests(reply) ==
    IF reply.kind = "fail" THEN <<>>
    ELSE Response(reply.status_code, reply.size, reply.final, reply.chain,
                  reply.headers, reply.page, reply.links)

\* fetch_page of the web app: driver.get(url), then a FakeResponse built
\* from the browser's page source and current URL
fetch_page_selenium(reply) ==
    IF reply.kind = "fail" THEN <<>>
    ELSE Response(200, reply.size, reply.final, <<>>, {}, reply.page, reply.links)

\* ----------------------------------------------------------- Python floats
\* Python floats.  A non-negative double below 128 is the natural number
\* v * 2^54, kept as three limbs <<l0, l1, l2>> of 21 bits, least first.
\* Every operation computes the exact result and rounds it to 53 significant
\* bits, ties to even, as IEEE 754 binary64 arithmetic does.
Limb == 2^21

RECURSIVE BitLen(_)
BitLen(n) == IF n = 0 THEN 0 ELSE 1 + BitLen(n \div 2)

Carry(x) ==
    LET t1 == x[2] + (x[1] \div Limb)
    IN <<x[1] % Limb, t1 % Limb, x[3] + (t1 \div Limb)>>

\* round to nearest, ties to even: a value with its top bit at 42 + b - 1,
\* b the bit length of the top limb, keeps the 53 bits from there down
RoundDouble(x) ==
    LET r == BitLen(x[3]) - 11 IN
    IF r <= 0 THEN x
    ELSE LET q == 2^r
             rem == x[1] % q
             up == \/ 2 * rem > q
                   \/ 2 * rem = q /\ (x[1] \div q) % 2 = 1
         IN Carry(<<(x[1] - rem) + (IF up THEN q ELSE 0), x[2], x[3]>>)

\* int * float.  The operands are bound to their values first, as Python
\* evaluates the operands before it operates on them.
FloatMul(k, c) ==
    CHOOSE z \in {RoundDouble(w) :
                    w \in {Carry(v) : v \in {<<k * c[1], k * c[2], k * c[3]>>}}} : TRUE

\* float + float
FloatAdd(x, y) ==
    CHOOSE z \in {RoundDouble(w) :
                    w \in {Carry(v) :
                             v \in {<<a[1] + b[1], a[2] + b[2], a[3] + b[3]>> :
                                       a \in {x}, b \in {y}}}} : TRUE

\* int(float): truncation
FloatToInt(x) == x[3] \div 2^12

\* the long division of n by b over the given number of limbs: the limbs of
\* the quotient, most significant first, and then what the division left over
RECURSIVE LongDivision(_, _, _)
LongDivision(n, b, limbs) ==
    IF limbs = 1 THEN <<n \div b, n % b>>
    ELSE <<n \div b>> \o LongDivision((n % b) * Limb, b, limbs - 1)

\* the quotient d = <<q2, q1, q0, left>> of a division by b rounded to 53
\* significant bits, ties to even: q is the weight of the last bit kept, and
\* what is dropped is q0 % q and the left-over of the division
RoundQuotient(d, b) ==
    CHOOSE z \in
        {Carry(v) :
           v \in {<<(d[3] - m[2]) + (IF m[3] THEN m[1] ELSE 0), d[2], d[1]>> :
                    m \in {<<q, d[3] % q,
                              \/ 2 * (((d[3] % q) * b) + d[4]) > q * b
                              \/ /\ 2 * (((d[3] % q) * b) + d[4]) = q * b
                                 /\ (d[3] \div q) % 2 = 1>> :
                             q \in {2^(BitLen(d[1]) - 11)}}}} : TRUE

\* int / int, for a quotient that is 0 or lies between 1/4 and 128 and a
\* divisor below 1024: the long division of k * 2^54 by b, limb by limb, and
\* the rounding of the quotient
FloatDiv(k, b) ==
    IF k = 0 THEN <<0, 0, 0>>
    ELSE CHOOSE z \in {RoundQuotient(d, b) :
                         d \in {LongDivision(n, b, 3) : n \in {k * 2^12}}} : TRUE

\* ------------------------------------------------------------------- state
\* the key of the audit in progress_queues: str(uuid.uuid4())
AuditId == "audit"

\* int((len(self.visited_urls) / self.max_pages) * 100) if self.max_pages > 0
\* else 0
Percentage(pages_crawled, budget) ==
    IF budget > 0
    THEN CHOOSE p \in {FloatToInt(product) :
                          product \in {FloatMul(100, ratio) :
                                          ratio \in {FloatDiv(pages_crawled, budget)}}} :
            TRUE
    ELSE 0

NoPage == <<"", "">>

\* the event send_progress puts on the queue; the message is its text and
\* the page name that ends it
ProgressEvent(text, page) ==
    CHOOSE data \in {[type |-> "progress",
                      message |-> [text |-> text, page |-> page],
                      pages_crawled |-> n,
                      max_pages |-> max_pages,
                      percentage |-> Percentage(n, max_pages)] :
                        n \in {Cardinality(visited_urls)}} : TRUE

\* send_progress called with one text after the other while visited_urls
\* stays as it is
ProgressEvents(texts) ==
    CHOOSE events \in
        {[i \in 1..Len(texts) |->
             [data EXCEPT !.message = [text |-> texts[i], page |-> NoPage]]] :
           data \in {ProgressEvent("", NoPage)}} : TRUE

\* self.progress_queue.put(data), for the events of one step
Put(events) ==
    /\ progress_queue' = progress_queue \o events
    /\ emitted' = emitted \o events

Frame(url) == [url |-> url, pc |-> "enter", response |-> <<>>, links |-> <<>>]

Top == stack[Len(stack)]

Pop == SubSeq(stack, 1, Len(stack) - 1)

SetTop(f) == [stack EXCEPT ![Len(stack)] = f]

\* one call of fetch_page: the URL asked for, what the site sent and the
\* head of the response object the call returned (<<>> for None)
Fetched(url, reply, response) ==
    [url |-> url,
     sent |-> [kind |-> reply.kind, status_code |-> reply.status_code,
               size |-> reply.size, chain |-> reply.chain, final |-> reply.final],
     got |-> IF response = <<>> THEN <<>>
             ELSE <<[status_code |-> response[1].status_code,
                     content_len |-> response[1].content_len,
                     url |-> response[1].url, history |-> response[1].history]>>]

Init ==
    /\ \E seed \in SeedInputs :
          /\ base_url = RStripSlash(seed)
          /\ domain = seed.netloc
    /\ max_pages \in 0..MaxBudget
    /\ fetcher \in {"selenium", "requests"}
    /\ driver = FALSE
    /\ visited_urls = {}
    /\ all_links = {}
    /\ external_links = {}
    /\ broken_links = <<>>
    /\ redirects = <<>>
    /\ pages_data = <<>>
    /\ page_speeds = <<>>
    /\ issues = [critical |-> <<>>, warnings |-> <<>>, info |-> <<>>]
    /\ stack = <<>>
    /\ fetch_log = <<>>
    /\ scores = <<>>
    /\ phase = "init"
    /\ site \in Sites
    /\ links_left = MaxSiteLinks
    /\ faults_left = MaxFaults
    /\ ai_enabled = TRUE
    /\ ai_service = <<>>
    /\ recommendations = <<>>
    /\ report = <<>>
    /\ cancel = <<>>
    /\ progress_queue = <<>>
    /\ emitted = <<>>
    /\ stream = <<>>
    /\ handler = "streaming"
    /\ progress_queues = {AuditId}

\* run_audit up to its call of crawl_page(self.base_url)
RunAudit ==
    /\ phase = "init"
    /\ phase' = "crawl"
    /\ stack' = <<Frame(base_url)>>
    /\ Put(<<ProgressEvent("Starting audit of ", PageName(base_url))>>)
    /\ UNCHANGED <<report_vars, stream_vars,
                   site, base_url, domain, max_pages, fetcher, driver, visited_urls,
                   all_links, external_links, broken_links, redirects,
                   pages_data, page_speeds, issues, fetch_log, scores,
                   links_left, faults_left>>

\* the budget test off by one: a page too many is let through
CrawlGuardLate(url) == url \in visited_urls \/ Cardinality(visited_urls) > max_pages

\* the early return without the budget test
CrawlGuardNoBudget(url) == url \in visited_urls

\* the early return of crawl_page
CrawlGuard(url) == url \in visited_urls \/ Cardinality(visited_urls) >= max_pages

CrawlSkip ==
    /\ phase = "crawl" /\ stack # <<>> /\ Top.pc = "enter"
    /\ CrawlGuard(Top.url)
    /\ stack' = Pop
    /\ UNCHANGED <<report_vars, queue_vars, stream_vars,
                   site, base_url, domain, max_pages, fetcher, driver, visited_urls,
                   all_links, external_links, broken_links, redirects,
                   pages_data, page_speeds, issues, fetch_log, scores, phase,
                   links_left, faults_left>>

\* the URL is never marked as visited
MarkVisitedNever(url) == visited_urls

\* self.visited_urls.add(url)
MarkVisited(url) == visited_urls \cup {url}

\* crawl_page from its guard to the call of fetch_page
CrawlVisit ==
    /\ phase = "crawl" /\ stack # <<>> /\ Top.pc = "enter"
    /\ ~CrawlGuard(Top.url)
    /\ Put(<<ProgressEvent("Crawling: ", PageName(Top.url))>>)
    /\ visited_urls' = MarkVisited(Top.url)
    /\ stack' = SetTop([Top EXCEPT !.pc = "fetch"])
    /\ UNCHANGED <<report_vars, stream_vars,
                   site, base_url, domain, max_pages, fetcher, driver, all_links,
                   external_links, broken_links, redirects, pages_data,
                   page_speeds, issues, fetch_log, scores, phase, links_left,
                   faults_left>>

\* response = self.fetch_page(url), the requests fetcher
FetchRequests ==
    /\ phase = "crawl" /\ stack # <<>> /\ Top.pc = "fetch"
    /\ fetcher = "requests"
    /\ \E reply \in RequestsReplies(site, Top.url, links_left, faults_left) :
          /\ stack' = SetTop([Top EXCEPT !.pc = "response",
                                         !.response = fetch_page_requests(reply)])
          /\ fetch_log' =
                Append(fetch_log, Fetched(Top.url, reply, fetch_page_requests(reply)))
          /\ links_left' = links_left - Len(reply.links)
          /\ faults_left' = IF IsFault(Top.url, reply) THEN faults_left - 1
                             ELSE faults_left
    /\ UNCHANGED <<report_vars, queue_vars, stream_vars,
                   site, base_url, domain, max_pages, fetcher, driver, visited_urls,
                   all_links, external_links, broken_links, redirects,
                   pages_data, page_speeds, issues, scores, phase>>

\* response = self.fetch_page(url), the Selenium fetcher with a browser that
\* is up or comes up in init_browser
FetchSelenium ==
    /\ phase = "crawl" /\ stack # <<>> /\ Top.pc = "fetch"
    /\ fetcher = "selenium"
    /\ \E reply \in SeleniumReplies(site, Top.url, links_left, faults_left) :
          /\ stack' = SetTop([Top EXCEPT !.pc = "response",
                                         !.response = fetch_page_selenium(reply)])
          /\ fetch_log' =
                Append(fetch_log, Fetched(Top.url, reply, fetch_page_selenium(reply)))
          /\ links_left' = links_left - Len(reply.links)
          /\ faults_left' = IF IsFault(Top.url, reply) THEN faults_left - 1
                             ELSE faults_left
    /\ driver' = TRUE
    /\ UNCHANGED <<report_vars, queue_vars, stream_vars,
                   site, base_url, domain, max_pages, fetcher, visited_urls,
                   all_links, external_links, broken_links, redirects,
                   pages_data, page_speeds, issues, scores, phase>>

\* response = self.fetch_page(url), the Selenium fetcher when init_browser
\* fails: "No browser, skipping", None is returned and no request is made
FetchNoBrowser ==
    /\ phase = "crawl" /\ stack # <<>> /\ Top.pc = "fetch"
    /\ fetcher = "selenium" /\ ~driver
    /\ faults_left > 0
    /\ faults_left' = faults_left - 1
    /\ stack' = SetTop([Top EXCEPT !.pc = "response", !.response = <<>>])
    /\ fetch_log' = Append(fetch_log, Fetched(Top.url, NoBrowser, <<>>))
    /\ UNCHANGED <<report_vars, queue_vars, stream_vars,
                   site, base_url, domain, max_pages, fetcher, driver, visited_urls,
                   all_links, external_links, broken_links, redirects,
                   pages_data, page_speeds, issues, scores, phase, links_left>>

\* an entry of self.broken_links.  'status' holds the text 'Failed to fetch'
\* or the status code of the response: here the text "HTTP error" with the
\* code beside it in status_code (0 when there was no response)
BrokenLink(url, status, code) ==
    [url |-> url, status |-> status, status_code |-> code, page |-> PageName(url)]

\* the failed fetch dropped without a broken-link entry
FetchFailedNoRecord ==
    /\ phase = "crawl" /\ stack # <<>> /\ Top.pc = "response"
    /\ Top.response = <<>>
    /\ stack' = Pop
    /\ UNCHANGED <<report_vars, queue_vars, stream_vars,
                   site, base_url, domain, max_pages, fetcher, driver, visited_urls,
                   all_links, external_links, broken_links, redirects,
                   pages_data, page_speeds, issues, fetch_log, scores, phase,
                   links_left, faults_left>>

\* if not response: the fetch failed
FetchFailed ==
    /\ phase = "crawl" /\ stack # <<>> /\ Top.pc = "response"
    /\ Top.response = <<>>
    /\ broken_links' = Append(broken_links, BrokenLink(Top.url, "Failed to fetch", 0))
    /\ stack' = Pop
    /\ UNCHANGED <<report_vars, queue_vars, stream_vars,
                   site, base_url, domain, max_pages, fetcher, driver, visited_urls,
                   all_links, external_links, redirects, pages_data,
                   page_speeds, issues, fetch_log, scores, phase, links_left,
                   faults_left>>

\* if response.history: self.redirects.append(...)
RecordRedirect(url, r) ==
    IF r.history # <<>>
    THEN Append(redirects, [from |-> url, to |-> r.url, status_codes |-> r.history])
    ELSE redirects

\* the status test without the size of the body
HttpBrokenAnySize(r) == r.status_code >= ErrorStatus

\* the status test that ends crawl_page for an error status without content
HttpBroken(r) == r.status_code >= ErrorStatus /\ r.content_len < MinHtmlBytes

HttpErrorBroken ==
    /\ phase = "crawl" /\ stack # <<>> /\ Top.pc = "response"
    /\ Top.response # <<>>
    /\ LET r == Top.response[1] IN
          /\ HttpBroken(r)
          /\ redirects' = RecordRedirect(Top.url, r)
          /\ broken_links' =
                Append(broken_links, BrokenLink(Top.url, "HTTP error", r.status_code))
    /\ stack' = Pop
    /\ UNCHANGED <<report_vars, queue_vars, stream_vars,
                   site, base_url, domain, max_pages, fetcher, driver, visited_urls,
                   all_links, external_links, pages_data, page_speeds, issues,
                   fetch_log, scores, phase, links_left, faults_left>>

\* analyze_page_speed: the sample appended to self.page_speeds
SpeedData(url, r) ==
    [url |-> url, page |-> PageName(url), content_size |-> r.content_len,
     status_code |-> r.status_code]

\* parse, analyze_page_speed, pages_data, the five detectors, find_all('a')
AuditPage ==
    /\ phase = "crawl" /\ stack # <<>> /\ Top.pc = "response"
    /\ Top.response # <<>>
    /\ LET r == Top.response[1]
           url == Top.url
       IN /\ ~HttpBroken(r)
          /\ redirects' = RecordRedirect(url, r)
          /\ page_speeds' = Append(page_speeds, SpeedData(url, r))
          /\ pages_data' =
                Append(pages_data,
                       [url |-> url, has_title |-> r.soup.title_len > 0,
                        speed |-> SpeedData(url, r)])
          /\ issues' =
                [issues EXCEPT
                   !.warnings = @ \o check_seo_elements(r.soup, url)
                                  \o check_images(r.soup, url)
                                  \o check_mobile_viewport(r.soup, url),
                   !.critical = @ \o check_security_headers(r)
                                  \o check_render_blocking_resources(r.soup, url)]
          /\ stack' = SetTop([Top EXCEPT !.pc = "links", !.links = r.links])
    /\ UNCHANGED <<report_vars, queue_vars, stream_vars,
                   site, base_url, domain, max_pages, fetcher, driver, visited_urls,
                   all_links, external_links, broken_links, fetch_log, scores,
                   phase, links_left, faults_left>>

\* the internal/external test of the link loop
IsInternal(parsed) == parsed.netloc = domain \/ parsed.netloc = ""

AtLink == phase = "crawl" /\ stack # <<>> /\ Top.pc = "links" /\ Top.links # <<>>

NextLink == SetTop([Top EXCEPT !.links = Tail(@)])

\* continue: anchors, javascript:, mailto:, tel:
LinkSkip ==
    /\ AtLink /\ ~UrljoinRaises(Head(Top.links))
    /\ SkipLink(Head(Top.links), urljoin(Top.url, Head(Top.links)))
    /\ stack' = NextLink
    /\ UNCHANGED <<report_vars, queue_vars, stream_vars,
                   site, base_url, domain, max_pages, fetcher, driver, visited_urls,
                   all_links, external_links, broken_links, redirects,
                   pages_data, page_speeds, issues, fetch_log, scores, phase,
                   links_left, faults_left>>

\* the internal link put aside, to be crawled after the pages in process
LinkCrawlQueued ==
    /\ AtLink /\ ~UrljoinRaises(Head(Top.links))
    /\ LET full_url == urljoin(Top.url, Head(Top.links)) IN
          /\ ~SkipLink(Head(Top.links), full_url)
          /\ IsInternal(full_url)
          /\ full_url \notin visited_urls
          /\ all_links' = all_links \cup {full_url}
          /\ stack' = <<Frame(full_url)>> \o NextLink
    /\ UNCHANGED <<report_vars, queue_vars, stream_vars,
                   site, base_url, domain, max_pages, fetcher, driver, visited_urls,
                   external_links, broken_links, redirects, pages_data,
                   page_speeds, issues, fetch_log, scores, phase, links_left,
                   faults_left>>

\* an internal link that is not visited: self.crawl_page(full_url)
LinkCrawl ==
    /\ AtLink /\ ~UrljoinRaises(Head(Top.links))
    /\ LET full_url == urljoin(Top.url, Head(Top.links)) IN
          /\ ~SkipLink(Head(Top.links), full_url)
          /\ IsInternal(full_url)
          /\ full_url \notin visited_urls
          /\ all_links' = all_links \cup {full_url}
          /\ stack' = Append(NextLink, Frame(full_url))
    /\ UNCHANGED <<report_vars, queue_vars, stream_vars,
                   site, base_url, domain, max_pages, fetcher, driver, visited_urls,
                   external_links, broken_links, redirects, pages_data,
                   page_speeds, issues, fetch_log, scores, phase, links_left,
                   faults_left>>

\* an internal link that is already visited
LinkVisited ==
    /\ AtLink /\ ~UrljoinRaises(Head(Top.links))
    /\ LET full_url == urljoin(Top.url, Head(Top.links)) IN
          /\ ~SkipLink(Head(Top.links), full_url)
          /\ IsInternal(full_url)
          /\ full_url \in visited_urls
          /\ all_links' = all_links \cup {full_url}
    /\ stack' = NextLink
    /\ UNCHANGED <<report_vars, queue_vars, stream_vars,
                   site, base_url, domain, max_pages, fetcher, driver, visited_urls,
                   external_links, broken_links, redirects, pages_data,
                   page_speeds, issues, fetch_log, scores, phase, links_left,
                   faults_left>>

\* an external link: self.external_links.add(full_url)
LinkExternal ==
    /\ AtLink /\ ~UrljoinRaises(Head(Top.links))
    /\ LET full_url == urljoin(Top.url, Head(Top.links)) IN
          /\ ~SkipLink(Head(Top.links), full_url)
          /\ ~IsInternal(full_url)
          /\ all_links' = all_links \cup {full_url}
          /\ external_links' = external_links \cup {full_url}
    /\ stack' = NextLink
    /\ UNCHANGED <<report_vars, queue_vars, stream_vars,
                   site, base_url, domain, max_pages, fetcher, driver, visited_urls,
                   broken_links, redirects, pages_data, page_speeds, issues,
                   fetch_log, scores, phase, links_left, faults_left>>

\* full_url = urljoin(url, href) raises: crawl_page has no handler and
\* neither has run_audit, the exception leaves every crawl_page call on the
\* stack and run_audit itself
LinkRaise ==
    /\ AtLink /\ UrljoinRaises(Head(Top.links))
    /\ stack' = <<>>
    /\ phase' = "failed"
    /\ UNCHANGED <<report_vars, queue_vars, stream_vars,
                   site, base_url, domain, max_pages, fetcher, driver, visited_urls,
                   all_links, external_links, broken_links, redirects,
                   pages_data, page_speeds, issues, fetch_log, scores,
                   links_left, faults_left>>

\* the link loop is over: crawl_page returns
CrawlReturn ==
    /\ phase = "crawl" /\ stack # <<>> /\ Top.pc = "links" /\ Top.links = <<>>
    /\ stack' = Pop
    /\ UNCHANGED <<report_vars, queue_vars, stream_vars,
                   site, base_url, domain, max_pages, fetcher, driver, visited_urls,
                   all_links, external_links, broken_links, redirects,
                   pages_data, page_speeds, issues, fetch_log, scores, phase,
                   links_left, faults_left>>

\* ------------------------------------------------------------------ scoring
\* the literals 0.30, 0.25, 0.20: the doubles nearest to them,
\* 5404319552844595 / 2^54, 2^52 / 2^54 and 3602879701896397 / 2^54
PerformanceWeight == <<1258291, 1677721, 1228>>
SeoWeight == <<0, 0, 1024>>
AccessibilityWeight == <<838861, 419430, 819>>
BestPracticesWeight == <<0, 0, 1024>>

SeoPenalty == 20
PerformancePenalty == 25
AccessibilityPenalty == 20
SecurityPenalty == 15
MobilePenalty == 10
BrokenPenalty == 2
BrokenPenaltyCap == 30

\* the loop that fills unique_issues_by_category: the (category, title)
\* pairs of one issue list added to those collected so far
RECURSIVE AddUnique(_, _)
AddUnique(unique, issue_list) ==
    IF issue_list = <<>> THEN unique
    ELSE AddUnique(unique \cup {<<Head(issue_list).category, Head(issue_list).title>>},
                   Tail(issue_list))

\* every issue counted, page by page
UniqueIssuesPerPage(iss) ==
    UNION {{<<iss[name][i].category, iss[name][i].title, iss[name][i].url>> :
               i \in 1..Len(iss[name])} : name \in {"critical", "warnings", "info"}}

\* self.issues.values(): 'critical', 'warnings', 'info'
UniqueIssues(iss) ==
    AddUnique(AddUnique(AddUnique({}, iss.critical), iss.warnings), iss.info)

\* len(unique_issues_by_category.get(category, set()))
UniqueCount(unique, category) ==
    Cardinality({p \in unique : p[1] = category})

SubScore(count, penalty) == Max(0, 100 - (count * penalty))

\* the penalty for broken links without its cap
BestPracticesScoreNoCap(security_unique, mobile_unique, broken) ==
    Max(0, 100 - (security_unique * SecurityPenalty)
              - (mobile_unique * MobilePenalty)
              - (broken * BrokenPenalty))

BestPracticesScore(security_unique, mobile_unique, broken) ==
    Max(0, 100 - (security_unique * SecurityPenalty)
              - (mobile_unique * MobilePenalty)
              - Min(broken * BrokenPenalty, BrokenPenaltyCap))

\* the weights of performance and best practices exchanged
OverallScoreSwapped(performance, seo, accessibility, best) ==
    FloatToInt(
        FloatAdd(FloatAdd(FloatAdd(FloatMul(best, PerformanceWeight),
                                   FloatMul(seo, SeoWeight)),
                          FloatMul(accessibility, AccessibilityWeight)),
                 FloatMul(performance, BestPracticesWeight)))

OverallScore(performance, seo, accessibility, best) ==
    FloatToInt(
        FloatAdd(FloatAdd(FloatAdd(FloatMul(performance, PerformanceWeight),
                                   FloatMul(seo, SeoWeight)),
                          FloatMul(accessibility, AccessibilityWeight)),
                 FloatMul(best, BestPracticesWeight)))

calculate_score(iss, broken) ==
    LET unique == UniqueIssues(iss)
        seo == SubScore(UniqueCount(unique, "SEO"), SeoPenalty)
        performance == SubScore(UniqueCount(unique, "Performance"), PerformancePenalty)
        accessibility ==
            SubScore(UniqueCount(unique, "Accessibility"), AccessibilityPenalty)
        best == BestPracticesScore(UniqueCount(unique, "Security"),
                                   UniqueCount(unique, "Mobile"), Len(broken))
    IN <<[overall |-> OverallScore(performance, seo, accessibility, best),
          performance |-> performance, seo |-> seo,
          accessibility |-> accessibility, bestPractices |-> best]>>

\* run_audit after crawl_page returned: scores = self.calculate_score()
CalculateScore ==
    /\ phase = "crawl" /\ stack = <<>>
    /\ scores' = calculate_score(issues, broken_links)
    /\ phase' = "done"
    /\ UNCHANGED <<report_vars, queue_vars, stream_vars,
                   site, base_url, domain, max_pages, fetcher, driver,
                   visited_urls, all_links, external_links, broken_links,
                   redirects, pages_data, page_speeds, issues, stack,
                   fetch_log, links_left, faults_left>>

\* ---------------------------------------------------- the end of run_audit
\* The suggestion service as an audit finds it: the openai package missing
\* (AI_AVAILABLE False), no API key, a service that raises when it is called,
\* or one that answers; an answer to generate_enhanced_ai_recommendations
\* has a "PRIORITY ... <n>" line (priority <<n>>) or none (<<>>).
AiServices ==
    {[kind |-> k, priority |-> <<>>] : k \in {"not_installed", "no_key", "raises"}}
    \cup {[kind |-> "answers", priority |-> p] : p \in {<<>>, <<9>>}}

\* the early return of the AI methods, negated
Consulted(enabled, service) ==
    enabled /\ service.kind \notin {"not_installed", "no_key"}

\* max_to_process
AiMaxToProcess == 10
\* the default of ai_priority_score
AiDefaultPriority == 5
\* the samples a recommendation lists: broken_links[:10], and 5 examples
BrokenSampleLimit == 10
ExampleLimit == 5

AiCategories == {"SEO", "Accessibility", "Performance"}

\* dict[key] = value on a dict kept as a record
WithKey(d, key, value) ==
    [k \in DOMAIN d \cup {key} |-> IF k = key THEN value ELSE d[k]]

\* the issues in the order of: for issue_list in self.issues.values()
AllIssues(iss) == iss.critical \o iss.warnings \o iss.info

\* one issue list of generate_ai_suggestions_for_issues with a service that
\* answers: issue['ai_example'] is set until max_to_process are processed
RECURSIVE AiExamples(_, _)
AiExamples(issue_list, processed) ==
    IF issue_list = <<>> THEN <<>>
    ELSE IF processed < AiMaxToProcess /\ Head(issue_list).category \in AiCategories
         THEN <<WithKey(Head(issue_list), "ai_example", "example")>>
              \o AiExamples(Tail(issue_list), processed + 1)
         ELSE <<Head(issue_list)>> \o AiExamples(Tail(issue_list), processed)

\* what processed is after an issue list
Processable(issue_list, processed) ==
    Min(AiMaxToProcess,
        processed + Len(SelectSeq(issue_list, LAMBDA i : i.category \in AiCategories)))

\* the issues without the API key test: a missing key taken for a service
\* that answers
generate_ai_suggestions_for_issuesNoKeyTest(iss, enabled, service) ==
    IF enabled /\ service.kind \in {"no_key", "answers"}
    THEN [critical |-> AiExamples(iss.critical, 0),
          warnings |-> AiExamples(iss.warnings, Processable(iss.critical, 0)),
          info |-> AiExamples(iss.info,
                              Processable(iss.warnings, Processable(iss.critical, 0)))]
    ELSE iss

\* self.issues after generate_ai_suggestions_for_issues; an exception of the
\* service is caught before any issue is changed
generate_ai_suggestions_for_issues(iss, enabled, service) ==
    IF Consulted(enabled, service) /\ service.kind = "answers"
    THEN [critical |-> AiExamples(iss.critical, 0),
          warnings |-> AiExamples(iss.warnings, Processable(iss.critical, 0)),
          info |-> AiExamples(iss.info,
                              Processable(iss.warnings, Processable(iss.critical, 0)))]
    ELSE iss

\* [link['url'] for link in self.broken_links[:10]]
BrokenSample(broken) ==
    [i \in 1..Min(BrokenSampleLimit, Len(broken)) |-> broken[i].url]

\* unique_issue_counts[category]
CategoryTitleSet(iss, category) ==
    {AllIssues(iss)[i].title :
        i \in {j \in 1..Len(AllIssues(iss)) : AllIssues(iss)[j].category = category}}

\* [ex['url'] for ex in issue_examples[category]]
ExampleURLs(iss, category) ==
    LET of_category == SelectSeq(AllIssues(iss), LAMBDA i : i.category = category)
    IN [i \in 1..Min(ExampleLimit, Len(of_category)) |-> of_category[i].url]

\* the entry of one category, none when it has no title
CategoryEntry(iss, priority, category) ==
    IF CategoryTitleSet(iss, category) = {} THEN <<>>
    ELSE IF category = "Security"
         THEN <<[priority |-> priority, category |-> category,
                 affected_count |-> Cardinality(CategoryTitleSet(iss, category))]>>
         ELSE <<[priority |-> priority, category |-> category,
                 affected_count |-> Cardinality(CategoryTitleSet(iss, category)),
                 affected_urls |-> ExampleURLs(iss, category)]>>

generate_recommendations(iss, broken) ==
    (IF Len(broken) > 0
        THEN <<[priority |-> "critical", category |-> "Broken Links",
                affected_count |-> Len(broken),
                affected_urls |-> BrokenSample(broken)]>>
        ELSE <<>>)
    \o CategoryEntry(iss, "warning", "SEO")
    \o CategoryEntry(iss, "critical", "Performance")
    \o CategoryEntry(iss, "critical", "Security")
    \o CategoryEntry(iss, "warning", "Accessibility")

\* the recommendations after generate_enhanced_ai_recommendations; an
\* exception of the service is caught before any entry is changed
generate_enhanced_ai_recommendations(recs, enabled, service) ==
    IF Consulted(enabled, service) /\ service.kind = "answers"
    THEN [i \in 1..Len(recs) |->
            WithKey(WithKey(recs[i], "ai_recommendation", "text"),
                    "ai_priority_score",
                    IF service.priority = <<>> THEN AiDefaultPriority
                    ELSE service.priority[1])]
    ELSE recs

\* the report with the pages audited as its total_pages
MakeReportPagesAudited(recs, iss, score) ==
    [url |-> base_url,
     scores |-> score[1],
     statistics |-> [total_pages |-> Len(pages_data),
                     broken_links |-> Len(broken_links),
                     redirects |-> Len(redirects),
                     external_links |-> Cardinality(external_links)],
     recommendations |-> recs,
     detailed_issues |-> AllIssues(iss),
     broken_links |-> broken_links,
     page_speeds |-> page_speeds]

\* the report dictionary of run_audit, without its timestamp
MakeReport(recs, iss, score) ==
    [url |-> base_url,
     scores |-> score[1],
     statistics |-> [total_pages |-> Cardinality(visited_urls),
                     broken_links |-> Len(broken_links),
                     redirects |-> Len(redirects),
                     external_links |-> Cardinality(external_links)],
     recommendations |-> recs,
     detailed_issues |-> AllIssues(iss),
     broken_links |-> broken_links,
     page_speeds |-> page_speeds]

\* run_audit after crawl_page returned: the AI examples, the recommendations,
\* the scores, the report, close_browser
Report ==
    /\ phase = "crawl" /\ stack = <<>>
    /\ Put(ProgressEvents(<<"Skipping external broken link check...",
                            "Generating recommendations...",
                            "Calculating scores...",
                            "Audit complete! Preparing report...">>))
    /\ \E service \in AiServices :
          \E iss \in {IF ai_enabled
                      THEN generate_ai_suggestions_for_issues(issues, ai_enabled, service)
                      ELSE issues} :
             \E recs \in {generate_recommendations(iss, broken_links)} :
                \E score \in {calculate_score(iss, broken_links)} :
                   /\ ai_service' = <<service>>
                   /\ issues' = iss
                   /\ recommendations' =
                         IF ai_enabled
                         THEN generate_enhanced_ai_recommendations(recs, ai_enabled,
                                                                   service)
                         ELSE recs
                   /\ scores' = score
                   /\ report' = <<MakeReport(recommendations', iss, score)>>
    /\ driver' = FALSE
    /\ phase' = "done"
    /\ UNCHANGED <<stream_vars,
                   ai_enabled, cancel, site, base_url, domain, max_pages, fetcher,
                   visited_urls, all_links, external_links, broken_links,
                   redirects, pages_data, page_speeds, stack, fetch_log,
                   links_left, faults_left>>

Next ==
    \/ RunAudit
    \/ CrawlSkip
    \/ CrawlVisit
    \/ FetchRequests
    \/ FetchSelenium
    \/ FetchNoBrowser
    \/ FetchFailed
    \/ HttpErrorBroken
    \/ AuditPage
    \/ LinkSkip
    \/ LinkCrawl
    \/ LinkVisited
    \/ LinkExternal
    \/ LinkRaise
    \/ CrawlReturn
    \/ Report

Spec == Init /\ [][Next]_vars

\* run_audit is one thread that runs to completion: a step that can be
\* taken is taken
FairSpec == Spec /\ WF_vars(Next)

\* ------------------------------------------------- the event stream
\* run_audit_stream of the web app: run_audit runs in a daemon thread and
\* puts its events on a queue that generate() hands on to the client.  The
\* client going away ends generate() and nothing else: no flag is set that
\* the thread reads.  cancel keeps the number of fetches made by then, the
\* one in flight counted.
InFlight == IF stack # <<>> /\ Top.pc = "fetch" THEN 1 ELSE 0

\* what the audit thread alone reads and writes, its queue apart
audit_vars ==
    <<site, base_url, domain, max_pages, fetcher, driver, visited_urls,
      all_links, external_links, broken_links, redirects, pages_data,
      page_speeds, issues, stack, fetch_log, scores, links_left, faults_left,
      ai_enabled, ai_service, recommendations, report>>

\* q.put({'type': 'complete', 'data': report})
CompleteEvent(data) == [type |-> "complete", data |-> data]

\* q.put({'type': 'error', 'message': str(e)}); the message is kept as the
\* call that raised
ErrorEvent(message) == [type |-> "error", message |-> message]

HeartbeatEvent == [type |-> "heartbeat"]

\* msg.get('type') in ['complete', 'error']
IsTerminal(msg) == msg.type \in {"complete", "error"}

\* run_audit and save_report have returned: the thread puts 'complete' and ends
Complete ==
    /\ phase = "done"
    /\ Put(<<CompleteEvent(report[1])>>)
    /\ phase' = "exited"
    /\ UNCHANGED <<audit_vars, cancel, stream_vars>>

\* save_report raises (open or json.dump fails): the except clause puts 'error'
SaveFails ==
    /\ phase = "done"
    /\ Put(<<ErrorEvent("save_report")>>)
    /\ phase' = "exited"
    /\ UNCHANGED <<audit_vars, cancel, stream_vars>>

\* run_audit has raised: the except clause puts 'error'
Error ==
    /\ phase = "failed"
    /\ Put(<<ErrorEvent("run_audit")>>)
    /\ phase' = "exited"
    /\ UNCHANGED <<audit_vars, cancel, stream_vars>>

\* generate() is at its test of the event it yielded last, about to break
AtBreak == stream # <<>> /\ IsTerminal(stream[Len(stream)])

\* q.get() on a queue that is not empty, taking from the wrong end
QueueGetNewest(q) == [msg |-> q[Len(q)], rest |-> SubSeq(q, 1, Len(q) - 1)]

\* q.get() on a queue that is not empty: the oldest event, and the queue left
QueueGet(q) == [msg |-> Head(q), rest |-> Tail(q)]

\* msg = q.get(timeout=60); yield msg
Deliver ==
    /\ handler = "streaming"
    /\ ~AtBreak
    /\ progress_queue # <<>>
    /\ \E got \in {QueueGet(progress_queue)} :
          /\ stream' = Append(stream, got.msg)
          /\ progress_queue' = got.rest
    /\ UNCHANGED <<audit_vars, cancel, phase, emitted, handler, progress_queues>>

\* the heartbeats one stream is followed through
MaxHeartbeats == 1

Heartbeats == Len(SelectSeq(stream, LAMBDA e : e.type = "heartbeat"))

\* q.get(timeout=60) raises queue.Empty: a heartbeat is yielded
Heartbeat ==
    /\ handler = "streaming"
    /\ ~AtBreak
    /\ progress_queue = <<>>
    /\ Heartbeats < MaxHeartbeats
    /\ stream' = Append(stream, HeartbeatEvent)
    /\ UNCHANGED <<audit_vars, cancel, phase, queue_vars, handler, progress_queues>>

\* break, then: if audit_id in progress_queues: del progress_queues[audit_id]
Cleanup ==
    /\ handler = "streaming"
    /\ AtBreak
    /\ progress_queues' = progress_queues \ {AuditId}
    /\ handler' = "closed"
    /\ UNCHANGED <<audit_vars, cancel, phase, queue_vars, stream>>

\* the client goes away: generate() is closed at the yield it waits in, and
\* the statements after its loop are not run
Disconnect ==
    /\ handler = "streaming"
    /\ handler' = "abandoned"
    /\ cancel' = <<Len(fetch_log) + InFlight>>
    /\ UNCHANGED <<audit_vars, phase, queue_vars, stream, progress_queues>>

\* the web app builds its auditor on the Selenium fetch_page; the stream is
\* followed for the seed without 'www.' and the page that lacks everything
InitStream ==
    /\ Init
    /\ fetcher = "selenium"
    /\ base_url = MakeURL(SiteHost, "")
    /\ domain = SiteHost
    /\ site.page = BarePage

NextStream ==
    \/ RunAudit
    \/ CrawlSkip
    \/ CrawlVisit
    \/ FetchSelenium
    \/ FetchNoBrowser
    \/ FetchFailed
    \/ AuditPage
    \/ LinkSkip
    \/ LinkCrawl
    \/ LinkVisited
    \/ LinkExternal
    \/ LinkRaise
    \/ CrawlReturn
    \/ Report
    \/ Complete
    \/ SaveFails
    \/ Error
    \/ Deliver
    \/ Heartbeat
    \/ Cleanup
    \/ Disconnect

SpecStream == InitStream /\ [][NextStream]_vars

\* ------------------------------------------- calculate_score on its own
\* run_audit at the point where crawl_page has returned, with the issue
\* lists and broken links of an arbitrary crawl: per category a number of
\* distinct titles, filed as crawl_page files them (Security and Performance
\* under 'critical', the others under 'warnings').
MaxSeoTitles == 6
MaxPerformanceTitles == 5
MaxAccessibilityTitles == 6
MaxSecurityTitles == 7
MaxMobileTitles == 1
MaxBroken == 16
\* issue lists up to this length get per-page repeats appended
MaxRepeatIssues == 3

InputPage(i) == MakeURL(SiteHost, "/p" \o ToString(i))

InputIssues(type, category, k) ==
    [i \in 1..k |-> Issue(type, category, "issue " \o ToString(i), InputPage(1))]

InputBroken(n) ==
    [i \in 1..n |-> BrokenLink(InputPage(i), "Failed to fetch", 0)]

InitScore ==
    /\ site = [page |-> BarePage, fault |-> PlainHead]
    /\ base_url = MakeURL(SiteHost, "")
    /\ domain = SiteHost
    /\ max_pages = MaxBudget
    /\ fetcher = "requests"
    /\ driver = FALSE
    /\ visited_urls = {}
    /\ all_links = {}
    /\ external_links = {}
    /\ redirects = <<>>
    /\ pages_data = <<>>
    /\ page_speeds = <<>>
    /\ stack = <<>>
    /\ fetch_log = <<>>
    /\ scores = <<>>
    /\ phase = "crawl"
    /\ links_left = 0
    /\ faults_left = 0
    /\ ai_enabled = TRUE
    /\ ai_service = <<>>
    /\ recommendations = <<>>
    /\ report = <<>>
    /\ cancel = <<>>
    /\ progress_queue = <<>>
    /\ emitted = <<>>
    /\ stream = <<>>
    /\ handler = "streaming"
    /\ progress_queues = {AuditId}
    /\ \E seo \in 0..MaxSeoTitles, perf \in 0..MaxPerformanceTitles,
          acc \in 0..MaxAccessibilityTitles, sec \in 0..MaxSecurityTitles,
          mob \in 0..MaxMobileTitles :
          issues = [critical |-> InputIssues("critical", "Security", sec)
                                 \o InputIssues("critical", "Performance", perf),
                    warnings |-> InputIssues("warning", "SEO", seo)
                                 \o InputIssues("warning", "Accessibility", acc)
                                 \o InputIssues("warning", "Mobile", mob),
                    info |-> <<>>]
    /\ \E n \in 0..MaxBroken : broken_links = InputBroken(n)

\* the same defect found on one more page: an issue that repeats the
\* category and title of one already listed, after which run_audit scores again
RepeatIssue ==
    /\ phase = "done"
    /\ Len(issues.critical) + Len(issues.warnings) <= MaxRepeatIssues
    /\ \E name \in {"critical", "warnings"} :
          \E i \in 1..Len(issues[name]) :
             LET page == InputPage(Len(issues[name]) + 1)
                 again == [issues[name][i] EXCEPT !.url = page, !.page = PageName(page)]
             IN /\ issues' = [issues EXCEPT ![name] = Append(@, again)]
                /\ scores' = calculate_score(issues', broken_links)
    /\ UNCHANGED <<report_vars, queue_vars, stream_vars,
                   site, base_url, domain, max_pages, fetcher, driver,
                   visited_urls, all_links, external_links, broken_links,
                   redirects, pages_data, page_speeds, stack, fetch_log, phase,
                   links_left, faults_left>>

\* an issue record whose category is none of the five is in the lists when
\* run_audit scores again: issue.get('category', 'Other') files an issue
\* without a category under 'Other'
ForeignIssue ==
    /\ phase = "done"
    /\ issues.info = <<>>
    /\ Len(issues.critical) + Len(issues.warnings) <= MaxRepeatIssues
    /\ issues' = [issues EXCEPT
                    !.info = <<Issue("info", "Other", "issue 1", InputPage(1))>>]
    /\ scores' = calculate_score(issues', broken_links)
    /\ UNCHANGED <<report_vars, queue_vars, stream_vars,
                   site, base_url, domain, max_pages, fetcher, driver,
                   visited_urls, all_links, external_links, broken_links,
                   redirects, pages_data, page_speeds, stack, fetch_log, phase,
                   links_left, faults_left>>

NextScore ==
    \/ CalculateScore
    \/ RepeatIssue
    \/ ForeignIssue

SpecScore == InitScore /\ [][NextScore]_vars

\* ------------------------------------------- the report on its own
\* run_audit at the point where crawl_page has returned, after a crawl of
\* some pages that each showed the same defects: per category a number of
\* distinct titles, filed page by page as crawl_page files them, and a
\* number of pages that could not be fetched; the AI suggestions switched on
\* or off.
MaxReportTitles == 2
MaxReportPages == 2
MaxReportBroken == 11

FoundIssues(type, category, k, url) ==
    [i \in 1..k |-> Issue(type, category, "issue " \o ToString(i), url)]

RECURSIVE CriticalFound(_, _, _)
CriticalFound(pages, sec, perf) ==
    IF pages = 0 THEN <<>>
    ELSE CriticalFound(pages - 1, sec, perf)
         \o FoundIssues("critical", "Security", sec, NoURL)
         \o FoundIssues("critical", "Performance", perf, InputPage(pages))

RECURSIVE WarningsFound(_, _, _, _)
WarningsFound(pages, seo, acc, mob) ==
    IF pages = 0 THEN <<>>
    ELSE WarningsFound(pages - 1, seo, acc, mob)
         \o FoundIssues("warning", "SEO", seo, InputPage(pages))
         \o FoundIssues("warning", "Accessibility", acc, InputPage(pages))
         \o FoundIssues("warning", "Mobile", mob, InputPage(pages))

InitReport ==
    /\ site = [page |-> BarePage, fault |-> PlainHead]
    /\ base_url = MakeURL(SiteHost, "")
    /\ domain = SiteHost
    /\ fetcher = "requests"
    /\ driver = FALSE
    /\ all_links = {}
    /\ external_links = {}
    /\ redirects = <<>>
    /\ pages_data = <<>>
    /\ page_speeds = <<>>
    /\ stack = <<>>
    /\ fetch_log = <<>>
    /\ scores = <<>>
    /\ phase = "crawl"
    /\ links_left = 0
    /\ faults_left = 0
    /\ ai_enabled \in BOOLEAN
    /\ ai_service = <<>>
    /\ recommendations = <<>>
    /\ report = <<>>
    /\ cancel = <<>>
    /\ progress_queue = <<>>
    /\ emitted = <<>>
    /\ stream = <<>>
    /\ handler = "streaming"
    /\ progress_queues = {AuditId}
    /\ \E pages \in 1..MaxReportPages, broken \in 0..MaxReportBroken :
          /\ max_pages = pages + broken
          /\ visited_urls = {InputPage(i) : i \in 1..(pages + broken)}
          /\ broken_links =
                [i \in 1..broken |->
                   BrokenLink(InputPage(pages + i), "Failed to fetch", 0)]
          /\ \E seo, perf, acc, sec \in 0..MaxReportTitles, mob \in 0..1 :
                issues = [critical |-> CriticalFound(pages, sec, perf),
                          warnings |-> WarningsFound(pages, seo, acc, mob),
                          info |-> <<>>]

NextReport == Report

SpecReport == InitReport /\ [][NextReport]_vars

\* -------------------------------------------------------------- properties
FetchCount(u) == Cardinality({i \in 1..Len(fetch_log) : fetch_log[i].url = u})

AuditCount(u) == Cardinality({i \in 1..Len(pages_data) : pages_data[i].url = u})

BrokenCount(u) == Cardinality({i \in 1..Len(broken_links) : broken_links[i].url = u})

IssueCount(name, u, title) ==
    Cardinality({i \in 1..Len(issues[name]) :
                    issues[name][i].url = u /\ issues[name][i].title = title})

IssueTitles ==
    UNION {{issues[name][i].title : i \in 1..Len(issues[name])} :
              name \in {"critical", "warnings", "info"}}

FetchedURLs == {fetch_log[i].url : i \in 1..Len(fetch_log)}

AwaitingFetch(u) == stack # <<>> /\ Top.url = u /\ Top.pc = "fetch"

\* the call of fetch_page number i has been dealt with by crawl_page
Processed(i) ==
    ~(i = Len(fetch_log) /\ stack # <<>> /\ Top.pc = "response")

\* C1: in every state during and after crawl_page(seed), for every page
\* budget from 0 up, the visited set holds at most max_pages URLs.
BudgetBound == Cardinality(visited_urls) <= max_pages

\* a call of crawl_page for a new URL that the exhausted budget turns away
BudgetBoundWitness ==
    /\ phase = "crawl" /\ stack # <<>> /\ Top.pc = "enter"
    /\ Top.url \notin visited_urls
    /\ max_pages > 0
    /\ Cardinality(visited_urls) = max_pages

\* C2: whatever the link graph, a URL is fetched at most once and audited at
\* most once, each of its issues is listed at most once, and a URL that
\* crawl_page is entered with while it is new and the budget is not used up
\* is marked visited and fetched exactly once.
DedupeState ==
    /\ \A u \in visited_urls \cup FetchedURLs :
          /\ FetchCount(u) <= 1
          /\ AuditCount(u) <= 1
          /\ u \in visited_urls
          /\ FetchCount(u) = 1 \/ AwaitingFetch(u)
          /\ \A title \in IssueTitles, name \in {"critical", "warnings", "info"} :
                IssueCount(name, u, title) <= 1
    /\ \A title \in IssueTitles : IssueCount("critical", NoURL, title) <= Len(pages_data)

DedupeStep ==
    (/\ phase = "crawl" /\ stack # <<>> /\ Top.pc = "enter"
     /\ Top.url \notin visited_urls
     /\ Cardinality(visited_urls) < max_pages)
    => Top.url \in visited_urls'

IdempotentDedupe == []DedupeState /\ [][DedupeStep]_vars

\* a second link to a URL that another page led to and that was fetched once
IdempotentDedupeWitness ==
    /\ AtLink
    /\ LET full_url == urljoin(Top.url, Head(Top.links)) IN
          /\ ~SkipLink(Head(Top.links), full_url)
          /\ full_url # Top.url
          /\ full_url \in all_links
          /\ full_url \in visited_urls
          /\ FetchCount(full_url) = 1
          /\ AuditCount(full_url) = 1

SiteIdentitySymmetry ==
    \A u \in external_links : u.netloc \notin {SiteHost, WwwHost}

\* C5: once calculate_score has run, seo = max(0, 100 - 20 * SEO titles),
\* performance = max(0, 100 - 25 * Performance titles), accessibility =
\* max(0, 100 - 20 * Accessibility titles), bestPractices = max(0, 100 -
\* 15 * Security titles - 10 * Mobile titles - min(2n, 30)) for n broken
\* links, and each of them lies between 0 and 100.
Titles(category) ==
    UNION {{issues[name][i].title :
               i \in {j \in 1..Len(issues[name]) : issues[name][j].category = category}} :
              name \in {"critical", "warnings", "info"}}

SubScoreFormulas ==
    phase = "done" =>
       LET n == Len(broken_links)
           s == scores[1]
       IN /\ s.seo = Max(0, 100 - 20 * Cardinality(Titles("SEO")))
          /\ s.performance = Max(0, 100 - 25 * Cardinality(Titles("Performance")))
          /\ s.accessibility = Max(0, 100 - 20 * Cardinality(Titles("Accessibility")))
          /\ s.bestPractices =
                Max(0, 100 - 15 * Cardinality(Titles("Security"))
                           - 10 * Cardinality(Titles("Mobile")) - Min(2 * n, 30))
          /\ {s.seo, s.performance, s.accessibility, s.bestPractices} \subseteq 0..100

\* scores from more titles than a sub-score has points for, and more broken
\* links than the cap of their penalty lets count
SubScoreFormulasWitness ==
    /\ phase = "done"
    /\ 20 * Cardinality(Titles("SEO")) > 100
    /\ 2 * Len(broken_links) > 30
    /\ Cardinality(Titles("Security")) = 1 /\ Cardinality(Titles("Mobile")) = 1
    /\ scores[1].seo = 0
    /\ scores[1].bestPractices = 45

\* C6: once calculate_score has run, overall is the floor of
\* (30 * performance + 25 * seo + 20 * accessibility + 25 * bestPractices) / 100
\* and lies between 0 and 100.
OverallFormula ==
    phase = "done" =>
       LET s == scores[1] IN
          /\ s.overall = (30 * s.performance + 25 * s.seo + 20 * s.accessibility
                             + 25 * s.bestPractices) \div 100
          /\ s.overall \in 0..100

\* a weighted sum that is not a whole number: 15 + 5 + 16 + 7.5
OverallFormulaWitness ==
    scores = <<[overall |-> 43, performance |-> 50, seo |-> 20,
                accessibility |-> 80, bestPractices |-> 30]>>

\* C7: a further issue that repeats the category and title of a listed one
\* on another page, with the broken links as they were, leaves every score
\* as it was.
CategoryTitles(iss) ==
    UNION {{<<iss[name][i].category, iss[name][i].title>> : i \in 1..Len(iss[name])} :
              name \in {"critical", "warnings", "info"}}

RepeatKeepsScores ==
    (/\ phase = "done" /\ phase' = "done"
     /\ issues' # issues
     /\ CategoryTitles(issues') = CategoryTitles(issues)
     /\ Len(broken_links') = Len(broken_links))
    => scores' = scores

UniqueTitleCounting == [][RepeatKeepsScores]_vars

\* scores below 100 computed again after the same defect was listed for a
\* second and a third page
UniqueTitleCountingWitness ==
    /\ phase = "done"
    /\ Len(issues.critical) + Len(issues.warnings)
          >= Cardinality(CategoryTitles(issues)) + 2
    /\ scores[1].overall < 100

\* C8: once crawl_page has dealt with a fetch that was redirected twice
\* before it settled, there is exactly one redirect record for the requested
\* URL, its status-code chain has 2 elements, 'from' is the requested URL
\* and 'to' the final URL, and the final URL is in the visited set.
RedirectRecords(u) == {j \in 1..Len(redirects) : redirects[j].from = u}

RedirectChainRecorded ==
    \A i \in 1..Len(fetch_log) :
       (Processed(i) /\ Len(fetch_log[i].sent.chain) = 2) =>
          /\ Cardinality(RedirectRecords(fetch_log[i].url)) = 1
          /\ \A j \in RedirectRecords(fetch_log[i].url) :
                /\ redirects[j].to = fetch_log[i].sent.final
                /\ Len(redirects[j].status_codes) = 2
          /\ fetch_log[i].sent.final \in visited_urls

\* C9: a fetch_page call that returned no response leaves, once crawl_page
\* has dealt with it, exactly one broken-link entry for the URL, with the
\* fetch-failed status, and no page result, page-speed sample or issue for
\* it; the step that deals with it returns from the call without following
\* a link, back to the parent's link loop with its remaining links.
FailedFetches ==
    {i \in 1..Len(fetch_log) : Processed(i) /\ fetch_log[i].got = <<>>}

FetchFailureState ==
    \A i \in FailedFetches :
       LET u == fetch_log[i].url IN
          /\ BrokenCount(u) = 1
          /\ \A j \in 1..Len(broken_links) :
                broken_links[j].url = u => broken_links[j].status = "Failed to fetch"
          /\ AuditCount(u) = 0
          /\ \A j \in 1..Len(page_speeds) : page_speeds[j].url # u
          /\ \A name \in {"critical", "warnings", "info"} :
                \A j \in 1..Len(issues[name]) : issues[name][j].url # u
          /\ \A j \in 1..Len(stack) : stack[j].url # u

FetchFailureStep ==
    (phase = "crawl" /\ stack # <<>> /\ Top.pc = "response" /\ Top.response = <<>>)
    => /\ stack' = Pop
       /\ all_links' = all_links
       /\ visited_urls' = visited_urls
       /\ pages_data' = pages_data /\ page_speeds' = page_speeds /\ issues' = issues
       /\ Len(broken_links') = Len(broken_links) + 1
       /\ Len(stack) > 1 =>
             /\ stack'[Len(stack')].pc = "links"
             /\ stack'[Len(stack')].links = stack[Len(stack) - 1].links

FetchFailure == []FetchFailureState /\ [][FetchFailureStep]_vars

\* the link loop of a parent page, links still to go, right after the fetch
\* of a page it linked to failed
FetchFailureWitness ==
    /\ AtLink
    /\ Len(fetch_log) \in FailedFetches
    /\ fetch_log[Len(fetch_log)].url # Top.url
    /\ fetch_log[Len(fetch_log)].url \in all_links
    /\ broken_links # <<>>
    /\ broken_links[Len(broken_links)].url = fetch_log[Len(fetch_log)].url

\* C10: a response with a status code of 400 or more leaves, once crawl_page
\* has dealt with it, a broken-link entry and no page result if and only if
\* its body is shorter than 1000 bytes; with 1000 bytes or more the page is
\* audited and no broken-link entry is made, a 415 response included.
ErrorResponses ==
    {i \in 1..Len(fetch_log) :
        /\ Processed(i)
        /\ fetch_log[i].got # <<>>
        /\ fetch_log[i].got[1].status_code >= 400}

ConfigurationErrorFatal == max_pages <= 0 => report = <<>>

\* C12: an exception raised while one page is processed stays with that
\* page: it never ends run_audit, which goes on to the other pages and to
\* its report.
FailureScoping == phase # "failed"

\* the fetch of the seed URL failed: fetch_page returned None
SeedFetchFailed == fetch_log # <<>> /\ fetch_log[1].got = <<>>

\* C13 as stated: when the seed URL cannot be fetched, the report has no
\* issues, no broken links, no page-speed samples and zero pages, and every
\* score is 100.
ZeroPageCrawlEmpty ==
    (phase = "done" /\ SeedFetchFailed) =>
       /\ report[1].detailed_issues = <<>>
       /\ report[1].broken_links = <<>>
       /\ report[1].page_speeds = <<>>
       /\ report[1].statistics.total_pages = 0
       /\ report[1].scores = [overall |-> 100, performance |-> 100, seo |-> 100,
                              accessibility |-> 100, bestPractices |-> 100]

\* C13: when the fetch of the seed URL fails, run_audit is not aborted and
\* its report has no issues and no page-speed samples, no page was audited,
\* the seed is the one page counted and the one broken link, and the scores
\* are 100 but for best practices at 98 and overall at 99.
ZeroPageCrawl ==
    /\ SeedFetchFailed => phase # "failed"
    /\ (phase = "done" /\ SeedFetchFailed) =>
          /\ report # <<>>
          /\ pages_data = <<>>
          /\ report[1].detailed_issues = <<>>
          /\ report[1].page_speeds = <<>>
          /\ report[1].broken_links = <<BrokenLink(base_url, "Failed to fetch", 0)>>
          /\ report[1].statistics.total_pages = 1
          /\ report[1].statistics.broken_links = 1
          /\ report[1].scores = [overall |-> 99, performance |-> 100, seo |-> 100,
                                 accessibility |-> 100, bestPractices |-> 98]

\* the report of an audit whose seed the site failed to serve
ZeroPageCrawlWitness ==
    /\ phase = "done" /\ SeedFetchFailed
    /\ fetch_log[1].url = base_url
    /\ report # <<>>

\* the positions of the entries of a category in the recommendations
EntriesOf(category) ==
    {i \in 1..Len(recommendations) : recommendations[i].category = category}

\* the place of a category in the order of the recommendations
EntryRank(category) ==
    CASE category = "Broken Links" -> 0
      [] category = "SEO" -> 1
      [] category = "Performance" -> 2
      [] category = "Security" -> 3
      [] category = "Accessibility" -> 4
      [] OTHER -> 5

\* C14: the recommendations of a finished audit are a 'Broken Links' entry
\* first if and only if there are broken links, with at most 10 sample URLs,
\* then exactly one entry for each issue category that has at least one
\* title, with the number of distinct titles of the category, in the order
\* SEO, Performance, Security, Accessibility.
RecommendationEntries ==
    phase = "done" =>
       /\ EntriesOf("Broken Links") = IF broken_links # <<>> THEN {1} ELSE {}
       /\ \A i \in EntriesOf("Broken Links") :
             Len(recommendations[i].affected_urls) <= 10
       /\ \A category \in Categories :
             /\ Cardinality(EntriesOf(category)) =
                   IF CategoryTitleSet(issues, category) # {} THEN 1 ELSE 0
             /\ \A i \in EntriesOf(category) :
                   recommendations[i].affected_count =
                      Cardinality(CategoryTitleSet(issues, category))
       /\ \A i, j \in 1..Len(recommendations) :
             i < j => EntryRank(recommendations[i].category)
                         < EntryRank(recommendations[j].category)

\* C15: once the consumer of the event stream has gone away, no fetch is
\* begun: the fetches made are those made by then and the one in flight.
Cancellation == cancel # <<>> => Len(fetch_log) <= cancel[1]

\* the suggestion service is not there for this audit: switched off, not
\* installed, without its key, or raising when it is called
ServiceAbsent(service) ==
    ~ai_enabled \/ service.kind \in {"not_installed", "no_key", "raises"}

AbsentStep ==
    (phase = "crawl" /\ phase' = "done" /\ ServiceAbsent(ai_service'[1])) =>
       /\ issues' = issues
       /\ scores' = calculate_score(issues, broken_links)
       /\ recommendations' = generate_recommendations(issues, broken_links)
       /\ report' = <<MakeReport(generate_recommendations(issues, broken_links),
                                 issues, calculate_score(issues, broken_links))>>

\* C16: with the suggestion service switched off, not installed, without an
\* API key or raising, run_audit ends with the scores, statistics, issue list
\* and recommendation entries it computes from the crawl alone, none of them
\* touched by the AI steps.
SuggestionServiceAbsent == [][AbsentStep]_vars

\* a report with recommendations and issues the service would have been
\* asked about, made while the service raised
SuggestionServiceAbsentWitness ==
    /\ phase = "done" /\ ai_enabled
    /\ ai_service[1].kind = "raises"
    /\ Len(recommendations) >= 2
    /\ \E i \in 1..Len(report[1].detailed_issues) :
          report[1].detailed_issues[i].category \in AiCategories

\* the one page the audit fetched was the page with nothing in it, served
\* without security headers, and it was audited
MissingEverything ==
    /\ site.page = BarePage
    /\ Len(fetch_log) = 1
    /\ Len(pages_data) = 1

\* C17: the audit of a single fetched page with no title, no meta
\* description, no H1, no canonical, no viewport, 3 images without alt, 4
\* blocking stylesheets, 2 blocking scripts and no security headers finds 4
\* SEO, 1 Accessibility, 2 Performance, 4 Security and 1 Mobile titles, and
\* run_audit scores it seo 20, accessibility 80, performance 50,
\* bestPractices 30, overall 43.
MissingEverythingScenario ==
    /\ MissingEverything =>
          /\ Cardinality(Titles("SEO")) = 4
          /\ Cardinality(Titles("Accessibility")) = 1
          /\ Cardinality(Titles("Performance")) = 2
          /\ Cardinality(Titles("Security")) = 4
          /\ Cardinality(Titles("Mobile")) = 1
    /\ (MissingEverything /\ phase = "done") =>
          scores = <<[overall |-> 43, performance |-> 50, seo |-> 20,
                      accessibility |-> 80, bestPractices |-> 30]>>

\* the report of that audit, the page fetched by the browser
MissingEverythingScenarioWitness ==
    /\ MissingEverything /\ phase = "done"
    /\ fetcher = "selenium"
    /\ fetch_log[1].sent.kind = "ok" /\ fetch_log[1].sent.status_code = 200
    /\ report[1].scores.overall = 43

\* the one page the audit fetched was the clean page, served with the four
\* required security headers, and it was audited
CleanPageFetched ==
    /\ site.page = CleanPage
    /\ Len(fetch_log) = 1
    /\ Len(pages_data) = 1

\* C18: the audit of a page fetched by the engine that has a 40-character
\* title, a meta description, one H1, a canonical link, a viewport tag, alt
\* text on every image, 2 blocking stylesheets and 1 blocking script, and is
\* served with the four required security headers, leaves no issue and
\* scores seo, performance, accessibility and bestPractices at 100.
CleanPageScenario ==
    /\ CleanPageFetched => AllIssues(issues) = <<>>
    /\ (CleanPageFetched /\ phase = "done") =>
          /\ scores[1].seo = 100
          /\ scores[1].performance = 100
          /\ scores[1].accessibility = 100
          /\ scores[1].bestPractices = 100

\* the URLs the issues, the page results and the redirect records name; a
\* Security issue names none
RecordedURLs ==
    {i.url : i \in {x \in Range(AllIssues(issues)) : x.url # NoURL}}
    \cup {pages_data[i].url : i \in 1..Len(pages_data)}
    \cup {redirects[i].from : i \in 1..Len(redirects)}
    \cup {redirects[i].to : i \in 1..Len(redirects)}

\* C19: every URL that is the source URL of an issue, the URL of a page
\* result, or the original or final URL of a redirect record is in the
\* visited set.
VisitedCoverage == RecordedURLs \subseteq visited_urls

\* C20: the visited set holds normalized URLs and only grows: two URLs that
\* differ only by a trailing slash are one entry and one fetch, and a URL
\* that was fetched stays in the set.
NormalizedVisited ==
    /\ \A u, v \in visited_urls : RStripSlash(u) = RStripSlash(v) => u = v
    /\ \A i, j \in 1..Len(fetch_log) :
          RStripSlash(fetch_log[i].url) = RStripSlash(fetch_log[j].url) => i = j
    /\ \A i \in 1..Len(fetch_log) : fetch_log[i].url \in visited_urls

\* the calls of crawl_page that are past the guard: the pages in process
InProcess == {k \in 1..Len(stack) : stack[k].pc # "enter"}

VisitedBeforeFetchState ==
    \A k \in InProcess :
       /\ stack[k].url \in visited_urls
       /\ FetchCount(stack[k].url) <= 1

\* a step that calls fetch_page calls it for a URL that is already marked
VisitedBeforeFetchStep ==
    Len(fetch_log') > Len(fetch_log) =>
       /\ fetch_log'[Len(fetch_log')].url \in visited_urls
       /\ FetchCount(fetch_log'[Len(fetch_log')].url) = 0

\* C21: a URL is added to the visited set before it is fetched, so a page
\* that links to itself, or that a page below it links back to while it is
\* in process, is never fetched a second time.
VisitedBeforeFetch == []VisitedBeforeFetchState /\ [][VisitedBeforeFetchStep]_vars

\* the link loop of a fetched page at a link to the page itself
VisitedBeforeFetchWitness ==
    /\ AtLink /\ ~UrljoinRaises(Head(Top.links))
    /\ ~SkipLink(Head(Top.links), urljoin(Top.url, Head(Top.links)))
    /\ urljoin(Top.url, Head(Top.links)) = Top.url
    /\ FetchCount(Top.url) = 1

\* C22: every URL passed to fetch_page is the seed or a URL whose host is
\* the site; a link to another host is in external_links and is not
\* fetched, and a link that resolves to a URL without a host is dropped: it
\* is neither marked visited nor fetched.
OnlySameSiteFetched ==
    /\ \A u \in FetchedURLs : u = base_url \/ u.netloc \in {SiteHost, WwwHost}
    /\ external_links \cap FetchedURLs = {}
    /\ \A u \in visited_urls \cup FetchedURLs \cup all_links : u.netloc # ""

\* the link the loop is at leads to a page of the site: it resolves to a URL
\* of the site's host and is neither a fragment of the page it stands on nor
\* a javascript:, mailto: or tel: link
LeadsToPage(href, full_url) ==
    /\ href.kind \notin PseudoSchemes \cup {"frag"}
    /\ full_url.netloc = domain

InternalLinkCoverageStep ==
    (/\ AtLink /\ ~UrljoinRaises(Head(Top.links))
     /\ LeadsToPage(Head(Top.links), urljoin(Top.url, Head(Top.links))))
    => \E target \in {urljoin(Top.url, Head(Top.links)),
                      [urljoin(Top.url, Head(Top.links)) EXCEPT !.fragment = ""]} :
          \/ target \in visited_urls
          \/ /\ Len(stack') = Len(stack) + 1
             /\ stack'[Len(stack')] = Frame(target)

\* C23: for every anchor of an audited page that leads to a page of the
\* site, a link to another page at a fragment such as /x#team included,
\* crawl_page is entered for the resolved URL unless that URL is already
\* visited.
InternalLinkCoverage == [][InternalLinkCoverageStep]_vars

\* where in fetch_log the fetch of a URL is, 0 when it has not been fetched
FetchIndex(u) ==
    IF u \in FetchedURLs
    THEN CHOOSE i \in 1..Len(fetch_log) : fetch_log[i].url = u
    ELSE 0

\* the calls of crawl_page that are open form one chain from the seed down:
\* all but the innermost wait in their link loop, and they were fetched in
\* the order of their depth
DepthFirstState ==
    /\ stack # <<>> => stack[1].url = base_url
    /\ \A k \in 1..(Len(stack) - 1) :
          /\ stack[k].pc = "links"
          /\ FetchIndex(stack[k].url) > 0
          /\ \/ FetchIndex(stack[k + 1].url) = 0
             \/ FetchIndex(stack[k + 1].url) > FetchIndex(stack[k].url)
             \/ stack[k + 1].pc = "enter"

\* only the innermost call moves: it goes on to its next link once the call
\* it made for a link has returned, and a new call is made for the first
\* link it has not dealt with
DepthFirstStep ==
    /\ \A k \in 1..(Len(stack) - 1) : k <= Len(stack') => stack'[k] = stack[k]
    /\ Len(stack') <= Len(stack) + 1
    /\ Len(stack') = Len(stack) + 1 /\ stack # <<>> =>
          /\ AtLink
          /\ stack'[Len(stack')] = Frame(urljoin(Top.url, Head(Top.links)))
          /\ stack'[Len(stack)] = [Top EXCEPT !.links = Tail(@)]
    /\ Len(fetch_log') > Len(fetch_log) =>
          fetch_log'[Len(fetch_log')].url = Top.url

CrawlingEvents ==
    SelectSeq(emitted,
              LAMBDA e : e.type = "progress" /\ e.message.text = "Crawling: ")

\* C25: progress reporting: the event of the k-th visited page is put after
\* that page has been fetched, and it carries pages_crawled = k, the budget
\* and percentage = floor(100 * k / budget), which lies in 0..100
ProgressReporting ==
    /\ Len(CrawlingEvents) <= Len(fetch_log)
    /\ \A k \in 1..Len(CrawlingEvents) :
          /\ CrawlingEvents[k].pages_crawled = k
          /\ CrawlingEvents[k].max_pages = max_pages
          /\ CrawlingEvents[k].percentage = (100 * k) \div max_pages
          /\ CrawlingEvents[k].percentage \in 0..100

\* C26: closed category set: every issue of an audit has one of the five
\* categories, and calculate_score returns no scores when the issue lists
\* hold an issue of another category
ClosedCategorySet ==
    (\E i \in 1..Len(AllIssues(issues)) :
        AllIssues(issues)[i].category \notin Categories) => scores = <<>>

\* the issue records listed before a step are listed after it, at their
\* places and with the same fields and values
IssuesKeptStep ==
    \A name \in {"critical", "warnings", "info"} :
       /\ Len(issues'[name]) >= Len(issues[name])
       /\ \A i \in 1..Len(issues[name]) :
             /\ DOMAIN issues'[name][i] = DOMAIN issues[name][i]
             /\ \A k \in DOMAIN issues[name][i] :
                   issues'[name][i][k] = issues[name][i][k]

\* C27: issues are append-only: no step of run_audit removes an issue that
\* was appended, or changes or adds one of its fields
IssuesAppendOnly == [][IssuesKeptStep]_vars

\* the number of records of a list that name the URL
RecordsOf(records, url) ==
    Cardinality({i \in 1..Len(records) : records[i].url = url})

\* crawl_page(seed) has returned to run_audit
CrawlReturned == phase \in {"crawl", "done"} /\ stack = <<>>

\* C28: outcome partition: once crawl_page(seed) has returned, every visited
\* URL has one page result with one speed sample, or one broken-link record,
\* never both and never neither, and the lists hold nothing else
OutcomePartition ==
    CrawlReturned =>
       /\ \A url \in visited_urls :
             /\ RecordsOf(pages_data, url) + RecordsOf(broken_links, url) = 1
             /\ RecordsOf(page_speeds, url) = RecordsOf(pages_data, url)
       /\ Cardinality(visited_urls) = Len(pages_data) + Len(broken_links)
       /\ Len(pages_data) = Len(page_speeds)

OutcomePartitionWitness ==
    /\ CrawlReturned
    /\ Len(pages_data) = 1
    /\ Len(broken_links) = 1
    /\ Cardinality(visited_urls) = 2

\* the events the client has received, heartbeats left out
Delivered == SelectSeq(stream, LAMBDA e : e.type # "heartbeat")

\* a terminal event is the last of its sequence
TerminalLast(events) ==
    \A i \in 1..Len(events) : IsTerminal(events[i]) => i = Len(events)

\* C29: event stream termination: the client receives the events in the
\* order they were put, none lost or repeated, heartbeats in between; the
\* thread puts one terminal event as its last, 'complete' with the report
\* when run_audit and save_report returned and 'error' when one of them
\* raised; nothing is yielded after the terminal event, the loop of
\* generate() ends with it, and a client that stays is never left waiting
\* for an event that does not come
EventStreamTermination ==
    /\ Delivered \o progress_queue = emitted
    /\ TerminalLast(emitted)
    /\ TerminalLast(stream)
    /\ phase = "exited" <=> (emitted # <<>> /\ IsTerminal(emitted[Len(emitted)]))
    /\ phase = "exited" =>
          LET last == emitted[Len(emitted)]
          IN IF report = <<>> THEN last = ErrorEvent("run_audit")
             ELSE last \in {CompleteEvent(report[1]), ErrorEvent("save_report")}
    /\ handler = "closed" => AtBreak /\ progress_queue = <<>>
    /\ (phase = "exited" /\ handler = "streaming" /\ progress_queue = <<>>) => AtBreak

EventStreamTerminationWitness ==
    /\ handler = "closed"
    /\ stream[Len(stream)].type = "complete"
    /\ Heartbeats = 1
    /\ Len(CrawlingEvents) = 2

\* C30: no progress-queue leak: once the stream of an audit has ended, with
\* its terminal event or with the client going away, progress_queues no
\* longer holds the id of the audit
NoProgressQueueLeak ==
    handler \in {"closed", "abandoned"} => AuditId \notin progress_queues
====
